---- MODULE Spec2Model ----
(***************************************************************************)
(* ChronoFlip speech timer: the useTimer hook (segment runner), the        *)
(* TimerRunningScreen component (alerts, sequencing, schedule gate) and    *)
(* the App-level start/exit, as a state machine.                           *)
(*                                                                         *)
(* One action is one browser task: an event handler or timer callback,     *)
(* the state updates it queues, and the React commits that follow (render, *)
(* effect cleanups and effects in declaration order, repeated until no     *)
(* effect changes state). The application runs on React 19 with            *)
(* createRoot, so the updates queued by one callback are batched into one  *)
(* render. Timer callbacks may be delayed or skipped (throttled tabs): an  *)
(* interval that is live may fire at any instant, and need not.            *)
(***************************************************************************)
EXTENDS Integers, Sequences, FiniteSets, TLC

\* ---------------------------------------------------------------- bounds
\* wall-clock granularity of the model, in ms
Quantum == 1000
\* number of quanta the wall clock may advance
MaxSteps == 6
\* Date.now() at the beginning of a behaviour (ms)
StartEpoch == 100000
\* how far in the future the user schedules a start (ms)
SchedDelay == 6000
\* number of times the timer screen may be opened
MaxRuns == 1
\* number of completions whose sound is followed
MaxSoundCalls == 3
MaxSavedSegments == 2
MaxSavedAlerts == 1
MaxWakeLocks == 2
MaxEvalAlerts == 3
MaxThreshold == 2
MaxEvalTime == 3
FlashQuantum == 125
MaxFlashTime == 2500
MaxFlashChains == 2
\* cap of the count of completion callbacks of one run
MaxCompletionCalls == 2
\* number of long-press timeouts that may be pending with no ref holding them
MaxStaleTimers == 1

\* ------------------------------------------------------ program constants
\* JS null of the numeric refs; the code only tests them for truthiness and
\* subtracts them, and both treat null exactly as 0
Null == 0
TRANSITION_DURATION == 2500
RESET_HOLD_DURATION == 1500
SCHEDULE_CHECK_MS == 1000
MS_PER_SECOND == 1000
\* AudioService.volume as constructed (0.5), in tenths
DEFAULT_VOLUME == 5
FLASH_STEPS == 6
FLASH_STEP_MS == 250

\* ------------------------------------------------------------ event data
Alert(id, t, color, bg) ==
    [id |-> id, timeInSeconds |-> t, color |-> color, background |-> bg]

Segment(id, mode, dur, alerts) ==
    [id |-> id, mode |-> mode, durationSeconds |-> dur, colorAlerts |-> alerts]

\* the events of the application state (AppState.events)
Events ==
    << [segments |->
          << Segment("A1", "countdown", 2,
                     << Alert("a_lo", 1, "red", TRUE),
                        Alert("a_hi", 2, "amber", TRUE) >>),
             Segment("A2", "countup", 0,
                     << Alert("b1", 1, "red", TRUE) >>) >>],
       [segments |->
          << Segment("B1", "countup", 2,
                     << Alert("c2", 2, "red", TRUE),
                        Alert("c1", 1, "amber", FALSE) >>) >>],
       [segments |-> << >>] >>

EventIds == 1 .. Len(Events)

NoSegment == [id |-> "none", mode |-> "none", durationSeconds |-> 0,
              colorAlerts |-> << >>]

\* ------------------------------------------------------------- variables
VARIABLES
    \* environment
    now,                  \* Date.now()
    \* App (AppState)
    currentScreen,        \* "eventSettings" | "timerRunning"
    runningEventId,       \* Null or an event id
    runningSegmentIndex,
    scheduledStartTime,   \* per event: Null or epoch ms
    \* TimerRunningScreen state and refs
    currentSegmentIndex,
    isTransitioning,
    allComplete,
    isWaitingSchedule,
    activeAlertColor,
    triggeredAlertIds,    \* triggeredAlertIdsRef.current
    schedInterval,        \* the schedule effect's interval is live
    schedLastAt,          \* instant of the last schedule check
    transStart,           \* SegmentTransition's start instant, Null if unmounted
    resetTimerRef,        \* Null, or the instant the long-press timeout it holds was armed
    staleResetTimers,     \* arming instants of pending timeouts resetTimerRef no longer holds
    exitedResetTimers,    \* arming instants of pending timeouts of screens opened earlier
    rKeyHeldRef,          \* rKeyHeldRef.current
    rKeyHeldAt,           \* instant since which the R key is held, Null if it is not
    resetPressedAt,       \* instant since which the reset button is pressed, Null if it is not
    runs,                 \* how many times the timer screen was opened
    \* useTimer state and refs
    status,
    timeInSeconds,
    startTimeRef,
    pausedAtRef,
    totalPausedMsRef,
    initialTimeRef,
    intervalRef,          \* intervalRef.current holds an interval
    liveIntervals,        \* tick intervals created and not cleared
    \* observations (history)
    firedLog,             \* alert ids whose effects ran since the fired set was cleared
    runBeganAt,           \* instant at which the current run was started
    pauseBeganAt,         \* instant of the pause in progress, Null if none
    pausedTotal,          \* sum of the completed pause intervals of the current run
    completionCalls,      \* calls of onComplete since the current run began (capped)
    \* AudioService
    audioEnabled,         \* AudioService.enabled
    audioVolume,          \* AudioService.volume, in tenths
    soundCalls,           \* the playCustom calls of handleSegmentComplete, in order
    \* persistence
    savedDoc,             \* the segments of the saved events document (localStorage)
    loadedDoc,            \* the segments loadAppState returned, NotLoaded before it ran
    \* wake lock
    screenOn,             \* the keep-screen-on toggle
    wakeSeen,             \* the dependencies the wake lock effect last ran with
    wakeLockRef,          \* wakeLockRef.current holds a sentinel
    wakePending,          \* navigator.wakeLock.request calls not settled yet
    wakeHeld,             \* sentinels acquired and not released
    \* display of the timer screen
    isBlackout,
    blackoutKey,          \* the key whose press last ended a blackout, "" before any
    isFlashing,
    flashColor,
    flashChains,          \* the triggerFlash calls whose timeout chain is still pending
    \* one run of the alert effect on a segment of any alerts
    alertEval

appVars == << currentScreen, runningEventId, runningSegmentIndex, scheduledStartTime >>

compVars == << currentSegmentIndex, isTransitioning, allComplete, isWaitingSchedule,
               activeAlertColor, triggeredAlertIds, schedInterval, schedLastAt,
               transStart, status, timeInSeconds, startTimeRef, pausedAtRef,
               totalPausedMsRef, initialTimeRef, intervalRef, liveIntervals,
               firedLog, runBeganAt, pauseBeganAt, pausedTotal, completionCalls >>

resetVars == << resetTimerRef, staleResetTimers, exitedResetTimers, rKeyHeldRef,
               rKeyHeldAt, resetPressedAt >>

\* the audio service and the completion sounds requested from it
audioVars == << audioEnabled, audioVolume, soundCalls >>

\* the saved events document and what was loaded from it
loadVars == << savedDoc, loadedDoc >>

\* the wake lock hook and the effect that drives it
wakeVars == << screenOn, wakeSeen, wakeLockRef, wakePending, wakeHeld >>

\* blackout and flash state of the timer screen
uiVars == << isBlackout, blackoutKey, isFlashing, flashColor, flashChains >>

auxVars == << audioVars, loadVars, wakeVars, uiVars, alertEval >>

\* the variables of the timer screen and of the App around it
timerVars == << now, appVars, compVars, resetVars, runs >>

vars == << timerVars, auxVars >>


\* ------------------------------------------------------------ pure helpers
\* event.segments[i] ?? null
SegmentAt(e, i) ==
    IF e \in EventIds /\ i >= 0 /\ i < Len(Events[e].segments)
    THEN Events[e].segments[i + 1]
    ELSE NoSegment

HasSegment(e, i) == SegmentAt(e, i) # NoSegment

\* segment.mode === 'countdown' ? segment.durationSeconds : 0
InitialTime(seg) ==
    IF seg.mode = "countdown" THEN seg.durationSeconds ELSE 0

\* a comparator that sorts ascending whatever the mode
SortsNotAfter_ascending(mode, a, b) == a.timeInSeconds - b.timeInSeconds <= 0

\* the comparator of alerts.sort: a sorts before b or ties with it
SortsNotAfter(mode, a, b) ==
    IF mode = "countdown"
    THEN b.timeInSeconds - a.timeInSeconds <= 0
    ELSE a.timeInSeconds - b.timeInSeconds <= 0

RECURSIVE InsertAlert(_, _, _)
InsertAlert(mode, a, sorted) ==
    IF sorted = << >> THEN << a >>
    ELSE IF SortsNotAfter(mode, Head(sorted), a)
         THEN << Head(sorted) >> \o InsertAlert(mode, a, Tail(sorted))
         ELSE << a >> \o sorted

RECURSIVE SortAlerts(_, _)
SortAlerts(mode, alerts) ==
    IF alerts = << >> THEN << >>
    ELSE InsertAlert(mode, alerts[Len(alerts)],
                     SortAlerts(mode, SubSeq(alerts, 1, Len(alerts) - 1)))

\* sortedAlerts of the current segment
sortedAlerts(seg) ==
    IF seg = NoSegment THEN << >> ELSE SortAlerts(seg.mode, seg.colorAlerts)

\* countdown: remaining <= threshold, countup: elapsed >= threshold
shouldTrigger(mode, time, alert) ==
    IF mode = "countdown"
    THEN time <= alert.timeInSeconds
    ELSE time >= alert.timeInSeconds

\* an evaluation that forgets what has fired
alreadyTriggered_never(x, alert) == FALSE

\* triggeredAlertIdsRef.current.has(alert.id)
alreadyTriggered(x, alert) == alert.id \in x.triggeredAlertIds

\* the body of the for-loop of the alert effect, on the component record x
RECURSIVE checkAlerts(_, _, _, _)
checkAlerts(mode, time, alerts, x) ==
    IF alerts = << >> THEN x
    ELSE LET alert == Head(alerts)
             y == IF alreadyTriggered(x, alert) THEN x
                  ELSE IF shouldTrigger(mode, time, alert)
                  THEN [x EXCEPT
                          !.triggeredAlertIds = @ \cup {alert.id},
                          !.firedLog = Append(@, alert.id),
                          !.activeAlertColor =
                              IF alert.background THEN alert.color ELSE @]
                  ELSE x
         IN checkAlerts(mode, time, Tail(alerts), y)

\* Math.floor(elapsedMs / 1000)
elapsedSecondsOf(elapsedMs) == elapsedMs \div MS_PER_SECOND

\* the remaining time without the clamp at 0
remainingOf_unclamped(initial, elapsedSeconds) == initial - elapsedSeconds

\* Math.max(0, initialTimeRef.current - elapsedSeconds)
remainingOf(initial, elapsedSeconds) ==
    IF initial - elapsedSeconds > 0 THEN initial - elapsedSeconds ELSE 0

\* remaining <= 0
countdownDone(remaining) == remaining <= 0

\* completion of a count-up segment whatever its duration
countupDone_anyDuration(seg, elapsedSeconds) ==
    elapsedSeconds >= seg.durationSeconds

\* seg.durationSeconds > 0 && elapsedSeconds >= seg.durationSeconds
countupDone(seg, elapsedSeconds) ==
    seg.durationSeconds > 0 /\ elapsedSeconds >= seg.durationSeconds


\* ------------------------------------------------- component as a record
\* the state and refs of the mounted TimerRunningScreen (with its useTimer)
Comp ==
    [currentSegmentIndex |-> currentSegmentIndex,
     isTransitioning     |-> isTransitioning,
     allComplete         |-> allComplete,
     isWaitingSchedule   |-> isWaitingSchedule,
     activeAlertColor    |-> activeAlertColor,
     triggeredAlertIds   |-> triggeredAlertIds,
     schedInterval       |-> schedInterval,
     schedLastAt         |-> schedLastAt,
     transStart          |-> transStart,
     status              |-> status,
     timeInSeconds       |-> timeInSeconds,
     startTimeRef        |-> startTimeRef,
     pausedAtRef         |-> pausedAtRef,
     totalPausedMsRef    |-> totalPausedMsRef,
     initialTimeRef      |-> initialTimeRef,
     intervalRef         |-> intervalRef,
     liveIntervals       |-> liveIntervals,
     firedLog            |-> firedLog,
     runBeganAt          |-> runBeganAt,
     pauseBeganAt        |-> pauseBeganAt,
     pausedTotal         |-> pausedTotal,
     completionCalls     |-> completionCalls]

\* useState/useRef initial values of TimerRunningScreen and useTimer
InitialComp(e, k, sched, t) ==
    [currentSegmentIndex |-> k,
     isTransitioning     |-> FALSE,
     allComplete         |-> FALSE,
     isWaitingSchedule   |-> (sched # Null /\ sched > t),
     activeAlertColor    |-> "",
     triggeredAlertIds   |-> {},
     schedInterval       |-> FALSE,
     schedLastAt         |-> Null,
     transStart          |-> Null,
     status              |-> "idle",
     timeInSeconds       |-> InitialTime(SegmentAt(e, k)),
     startTimeRef        |-> Null,
     pausedAtRef         |-> Null,
     totalPausedMsRef    |-> 0,
     initialTimeRef      |-> SegmentAt(e, k).durationSeconds,
     intervalRef         |-> FALSE,
     liveIntervals       |-> 0,
     firedLog            |-> << >>,
     runBeganAt          |-> Null,
     pauseBeganAt        |-> Null,
     pausedTotal         |-> 0,
     completionCalls     |-> 0]

\* no TimerRunningScreen is mounted
Unmounted == InitialComp(Null, 0, Null, 0)

\* the rendered state (useState values) of a component record
StateOf(x) ==
    << x.currentSegmentIndex, x.isTransitioning, x.allComplete,
       x.isWaitingSchedule, x.activeAlertColor, x.status, x.timeInSeconds >>

currentSegment(e, r) == SegmentAt(e, r.currentSegmentIndex)
nextSegment(e, r) == SegmentAt(e, r.currentSegmentIndex + 1)

\* autoStart: !isWaitingSchedule
autoStart(r) == ~ r.isWaitingSchedule

\* ------------------------------------------------------------ the effects
\* each effect reads the rendered state r, reads and writes refs in x, and
\* queues state updates in x

\* a cleanup that leaves the interval running
clearTickInterval_skipped(x) == x

\* if (intervalRef.current) { clearInterval(intervalRef.current);
\*                            intervalRef.current = null; }
clearTickInterval(x) ==
    [x EXCEPT !.liveIntervals = IF x.intervalRef THEN @ - 1 ELSE @,
              !.intervalRef = FALSE]

\* useTimer: "Reset when segment changes", deps [segment?.id, autoStart]
segmentChangeEffect(e, r, x, t) ==
    LET segment == currentSegment(e, r) IN
    IF segment = NoSegment THEN x
    ELSE [clearTickInterval(x) EXCEPT
            !.initialTimeRef = segment.durationSeconds,
            !.startTimeRef = Null,
            !.pausedAtRef = Null,
            !.totalPausedMsRef = 0,
            !.timeInSeconds = InitialTime(segment),
            !.status = IF autoStart(r) THEN "running" ELSE "idle",
            !.runBeganAt = IF autoStart(r) THEN t ELSE Null,
            !.pauseBeganAt = Null,
            !.pausedTotal = 0,
            !.completionCalls = 0]

\* useTimer: cleanup of the "Main timer tick" effect
tickCleanup(x) == clearTickInterval(x)

\* useTimer: "Main timer tick" effect, deps [status, segment id/mode/duration]
tickEffect(e, r, x, t) ==
    IF r.status # "running" \/ currentSegment(e, r) = NoSegment
    THEN clearTickInterval(x)
    ELSE [x EXCEPT
            !.startTimeRef = IF @ = Null THEN t ELSE @,
            !.liveIntervals = @ + 1,
            !.intervalRef = TRUE]

\* "Reset triggered alerts when segment changes", deps [currentSegment?.id]
resetAlertsEffect(x) ==
    [x EXCEPT !.triggeredAlertIds = {},
              !.firedLog = << >>,
              !.activeAlertColor = ""]

\* "Color alert checking on each tick",
\* deps [timer.timeInSeconds, timer.status, currentSegment, sortedAlerts]
alertEffect(e, r, x) ==
    LET seg == currentSegment(e, r) IN
    IF r.status # "running" \/ seg = NoSegment \/ sortedAlerts(seg) = << >>
    THEN x
    ELSE checkAlerts(seg.mode, r.timeInSeconds, sortedAlerts(seg), x)

\* cleanup of the "Scheduled start countdown" effect
scheduleCleanup(x) == [x EXCEPT !.schedInterval = FALSE]

\* "Scheduled start countdown" effect: tick() once, then every second
scheduleEffect(r, x, sched, t) ==
    IF ~ r.isWaitingSchedule \/ sched = Null THEN x
    ELSE [x EXCEPT
            !.isWaitingSchedule = IF sched - t <= 0 THEN FALSE ELSE @,
            !.schedInterval = TRUE,
            !.schedLastAt = t]

\* {isTransitioning && nextSegment && currentSegment && <SegmentTransition/>}
transitionShown(e, r) ==
    r.isTransitioning /\ nextSegment(e, r) # NoSegment
                      /\ currentSegment(e, r) # NoSegment

\* SegmentTransition's effect (const start = Date.now()) and its cleanup
transitionMount(e, prev, r, x, mount, t) ==
    IF transitionShown(e, r)
    THEN IF mount \/ ~ transitionShown(e, prev)
         THEN [x EXCEPT !.transStart = t] ELSE x
    ELSE [x EXCEPT !.transStart = Null]

\* the deps of an effect differ between the previous render and this one
segChanged(e, prev, r) == currentSegment(e, prev) # currentSegment(e, r)
statusChanged(prev, r) == prev.status # r.status
timeChanged(prev, r) == prev.timeInSeconds # r.timeInSeconds

\* the effects of one commit, each run when mounting or when its deps differ
runSegmentChange(e, prev, r, x, mount, t) ==
    IF mount \/ segChanged(e, prev, r) \/ autoStart(prev) # autoStart(r)
    THEN segmentChangeEffect(e, r, x, t) ELSE x

runTick(e, prev, r, x, mount, t) ==
    IF mount THEN tickEffect(e, r, x, t)
    ELSE IF segChanged(e, prev, r) \/ statusChanged(prev, r)
    THEN tickEffect(e, r, tickCleanup(x), t) ELSE x

runResetAlerts(e, prev, r, x, mount) ==
    IF mount \/ segChanged(e, prev, r) THEN resetAlertsEffect(x) ELSE x

runAlert(e, prev, r, x, mount) ==
    IF mount \/ segChanged(e, prev, r) \/ statusChanged(prev, r)
             \/ timeChanged(prev, r)
    THEN alertEffect(e, r, x) ELSE x

runSchedule(prev, r, x, mount, sched, t) ==
    IF mount THEN scheduleEffect(r, x, sched, t)
    ELSE IF prev.isWaitingSchedule # r.isWaitingSchedule
    THEN scheduleEffect(r, scheduleCleanup(x), sched, t) ELSE x

\* one commit: the effects in declaration order
Pass(e, prev, r, mount, sched, t) ==
    transitionMount(e, prev, r,
      runSchedule(prev, r,
        runAlert(e, prev, r,
          runResetAlerts(e, prev, r,
            runTick(e, prev, r,
              runSegmentChange(e, prev, r, r, mount, t),
              mount, t),
            mount),
          mount),
        mount, sched, t),
      mount, t)

\* render and commit until the effects queue no further state change
RECURSIVE Commit(_, _, _, _, _, _)
Commit(e, prev, r, mount, sched, t) ==
    LET x == Pass(e, prev, r, mount, sched, t) IN
    IF StateOf(x) = StateOf(r) THEN x
    ELSE Commit(e, r, x, FALSE, sched, t)

\* the component variables take the values of record x
SetComp(x) ==
    /\ currentSegmentIndex' = x.currentSegmentIndex
    /\ isTransitioning' = x.isTransitioning
    /\ allComplete' = x.allComplete
    /\ isWaitingSchedule' = x.isWaitingSchedule
    /\ activeAlertColor' = x.activeAlertColor
    /\ triggeredAlertIds' = x.triggeredAlertIds
    /\ schedInterval' = x.schedInterval
    /\ schedLastAt' = x.schedLastAt
    /\ transStart' = x.transStart
    /\ status' = x.status
    /\ timeInSeconds' = x.timeInSeconds
    /\ startTimeRef' = x.startTimeRef
    /\ pausedAtRef' = x.pausedAtRef
    /\ totalPausedMsRef' = x.totalPausedMsRef
    /\ initialTimeRef' = x.initialTimeRef
    /\ intervalRef' = x.intervalRef
    /\ liveIntervals' = x.liveIntervals
    /\ firedLog' = x.firedLog
    /\ runBeganAt' = x.runBeganAt
    /\ pauseBeganAt' = x.pauseBeganAt
    /\ pausedTotal' = x.pausedTotal
    /\ completionCalls' = x.completionCalls


\* ------------------------------------------------------ useTimer's methods
\* useTimer.start
start(e, r, x, t) ==
    IF currentSegment(e, r) = NoSegment THEN x
    ELSE [x EXCEPT
            !.startTimeRef = Null,
            !.pausedAtRef = Null,
            !.totalPausedMsRef = 0,
            !.initialTimeRef = currentSegment(e, r).durationSeconds,
            !.timeInSeconds = InitialTime(currentSegment(e, r)),
            !.status = "running",
            !.runBeganAt = t,
            !.pauseBeganAt = Null,
            !.pausedTotal = 0,
            !.completionCalls = 0]

\* useTimer.pause
pause(x, t) ==
    [x EXCEPT !.pausedAtRef = t,
              !.status = "paused",
              !.pauseBeganAt = IF x.status = "running" THEN t ELSE @]

\* useTimer.resume
resume(x, t) ==
    [x EXCEPT
       !.totalPausedMsRef = IF x.pausedAtRef # Null THEN @ + (t - x.pausedAtRef) ELSE @,
       !.pausedAtRef = Null,
       !.status = "running",
       !.pausedTotal = IF x.pauseBeganAt # Null THEN @ + (t - x.pauseBeganAt) ELSE @,
       !.pauseBeganAt = Null]

\* handleSegmentComplete, closed over the render r
handleSegmentComplete(e, r, x) ==
    IF currentSegment(e, r) = NoSegment THEN x
    ELSE IF r.currentSegmentIndex < Len(Events[e].segments) - 1
         THEN [x EXCEPT !.isTransitioning = TRUE]
         ELSE [x EXCEPT !.allComplete = TRUE]

\* a tick callback that completes the segment but leaves its interval live
tickCallback_keepsInterval(e, r, t) ==
    LET elapsedSeconds == elapsedSecondsOf(t - r.startTimeRef - r.totalPausedMsRef)
        seg == currentSegment(e, r)
        remaining == remainingOf(r.initialTimeRef, elapsedSeconds)
        done == IF seg.mode = "countdown" THEN countdownDone(remaining)
                ELSE countupDone(seg, elapsedSeconds)
        shown == IF seg.mode = "countdown" THEN remaining
                 ELSE IF done THEN seg.durationSeconds ELSE elapsedSeconds
    IN IF seg = NoSegment THEN r
       ELSE IF done
       THEN handleSegmentComplete(e, r,
                [r EXCEPT !.timeInSeconds = shown,
                          !.completionCalls =
                              IF @ < MaxCompletionCalls THEN @ + 1 ELSE @])
       ELSE [r EXCEPT !.timeInSeconds = shown]

\* the callback of the tick interval
tickCallback(e, r, t) ==
    LET elapsedMs == t - r.startTimeRef - r.totalPausedMsRef
        elapsedSeconds == elapsedSecondsOf(elapsedMs)
        seg == currentSegment(e, r)
        remaining == remainingOf(r.initialTimeRef, elapsedSeconds)
        x == r
        completed(y) == handleSegmentComplete(e, r,
                            [clearTickInterval(y) EXCEPT !.status = "completed",
                                      !.completionCalls =
                                          IF @ < MaxCompletionCalls THEN @ + 1 ELSE @])
    IN IF seg = NoSegment THEN x
       ELSE IF seg.mode = "countdown"
       THEN IF countdownDone(remaining)
            THEN completed([x EXCEPT !.timeInSeconds = remaining])
            ELSE [x EXCEPT !.timeInSeconds = remaining]
       ELSE IF countupDone(seg, elapsedSeconds)
            THEN completed([x EXCEPT !.timeInSeconds = seg.durationSeconds])
            ELSE [x EXCEPT !.timeInSeconds = elapsedSeconds]

\* handleKeyDown, case 'Space'
spaceKey(e, r, t) ==
    IF r.status = "idle" \/ r.allComplete THEN start(e, r, r, t)
    ELSE IF r.status = "running" THEN pause(r, t)
    ELSE IF r.status = "paused" THEN resume(r, t)
    ELSE r

\* handleTransitionComplete
handleTransitionComplete(r) ==
    [r EXCEPT !.isTransitioning = FALSE,
              !.currentSegmentIndex = @ + 1]

\* ------------------------------------------------------------------ Init
TimerInit ==
    /\ now = StartEpoch
    /\ currentScreen = "eventSettings"
    /\ runningEventId = Null
    /\ runningSegmentIndex = 0
    /\ scheduledStartTime = [e \in EventIds |-> Null]
    /\ resetTimerRef = Null
    /\ staleResetTimers = {}
    /\ exitedResetTimers = {}
    /\ rKeyHeldRef = FALSE
    /\ rKeyHeldAt = Null
    /\ resetPressedAt = Null
    /\ runs = 0
    /\ currentSegmentIndex = Unmounted.currentSegmentIndex
    /\ isTransitioning = Unmounted.isTransitioning
    /\ allComplete = Unmounted.allComplete
    /\ isWaitingSchedule = Unmounted.isWaitingSchedule
    /\ activeAlertColor = Unmounted.activeAlertColor
    /\ triggeredAlertIds = Unmounted.triggeredAlertIds
    /\ schedInterval = Unmounted.schedInterval
    /\ schedLastAt = Unmounted.schedLastAt
    /\ transStart = Unmounted.transStart
    /\ status = Unmounted.status
    /\ timeInSeconds = Unmounted.timeInSeconds
    /\ startTimeRef = Unmounted.startTimeRef
    /\ pausedAtRef = Unmounted.pausedAtRef
    /\ totalPausedMsRef = Unmounted.totalPausedMsRef
    /\ initialTimeRef = Unmounted.initialTimeRef
    /\ intervalRef = Unmounted.intervalRef
    /\ liveIntervals = Unmounted.liveIntervals
    /\ firedLog = Unmounted.firedLog
    /\ runBeganAt = Unmounted.runBeganAt
    /\ pauseBeganAt = Unmounted.pauseBeganAt
    /\ pausedTotal = Unmounted.pausedTotal
    /\ completionCalls = Unmounted.completionCalls

\* the audio service as constructed: enabled, volume 0.5, nothing requested
AudioIdle ==
    /\ audioEnabled = TRUE
    /\ audioVolume = DEFAULT_VOLUME
    /\ soundCalls = << >>

\* nothing saved, nothing loaded
NotLoaded == [loaded |-> FALSE, segments |-> << >>]

LoadIdle ==
    /\ savedDoc = << >>
    /\ loadedDoc = NotLoaded

\* useWakeLock and the toggle as constructed: toggle off, no sentinel
WakeIdle ==
    /\ screenOn = FALSE
    /\ wakeSeen = [mounted |-> FALSE, screenOn |-> FALSE, status |-> "idle"]
    /\ wakeLockRef = FALSE
    /\ wakePending = 0
    /\ wakeHeld = 0

\* useState initial values: no blackout, no flash
UiIdle ==
    /\ isBlackout = FALSE
    /\ blackoutKey = ""
    /\ isFlashing = FALSE
    /\ flashColor = ""
    /\ flashChains = << >>

\* what the alert effect reads and writes besides the rendered time: the
\* fired set, the background colour (and the log of what fired)
NothingFired == [triggeredAlertIds |-> {}, firedLog |-> << >>, activeAlertColor |-> ""]

\* no alert evaluation under study
AlertEvalIdle ==
    alertEval = [mode |-> "countdown", alerts |-> << >>, time |-> 0,
                 before |-> NothingFired, after |-> NothingFired, done |-> FALSE]

Init == TimerInit /\ AudioIdle /\ LoadIdle /\ WakeIdle /\ UiIdle /\ AlertEvalIdle

Mounted == currentScreen = "timerRunning"

\* the long-press timeouts that are armed and not cleared
PendingResetTimers ==
    ({resetTimerRef} \ {Null}) \cup staleResetTimers \cup exitedResetTimers

\* a long-press timeout is due: the browser runs it before it delivers a
\* later press or release of the reset control
ResetTimerDue == \E t \in PendingResetTimers : now - t >= RESET_HOLD_DURATION

\* --------------------------------------------------------------- actions
\* the wall clock advances (while no screen is open and no timeout is
\* pending, nothing reads the clock)
Advance ==
    /\ Mounted \/ PendingResetTimers # {}
    /\ ~ ResetTimerDue
    /\ now + Quantum <= StartEpoch + MaxSteps * Quantum
    /\ now' = now + Quantum
    /\ UNCHANGED << appVars, compVars, resetVars, runs, auxVars >>

\* the indices the screens pass to startEvent: the event list starts an
\* event at the default index 0, the event's own screen at one of its segments
StartIndices(e) == {0} \cup (0 .. Len(Events[e].segments) - 1)

\* App.startEvent(e, k) from the event screens, then the mount of the screen
openTimerScreen(e, k) ==
    /\ currentScreen = "eventSettings"
    /\ runningEventId' = e
    /\ runningSegmentIndex' = k
    /\ currentScreen' = "timerRunning"
    /\ \E x \in {Commit(e, Unmounted,
                       InitialComp(e, k, scheduledStartTime[e], now),
                       TRUE, scheduledStartTime[e], now)} : SetComp(x)
    /\ runs' = runs + 1
    /\ UNCHANGED << now, scheduledStartTime, auxVars >>

StartEvent(e, k) ==
    /\ runs < MaxRuns
    /\ openTimerScreen(e, k)
    /\ UNCHANGED resetVars

\* EventSettingsScreen.handleScheduleStart and App's onScheduleStart
ScheduleStart(e) ==
    /\ currentScreen = "eventSettings"
    /\ runs < MaxRuns
    /\ Len(Events[e].segments) > 0
    /\ LET time == now + SchedDelay IN
       /\ scheduledStartTime' = [scheduledStartTime EXCEPT ![e] = time]
       /\ \E x \in {Commit(e, Unmounted, InitialComp(e, 0, time, now),
                          TRUE, time, now)} : SetComp(x)
    /\ runningEventId' = e
    /\ runningSegmentIndex' = 0
    /\ currentScreen' = "timerRunning"
    /\ runs' = runs + 1
    /\ UNCHANGED << now, resetVars, auxVars >>

\* App.exitTimer and the unmount of the screen
exitTimer ==
    /\ scheduledStartTime' =
          [e \in EventIds |-> IF e = runningEventId THEN Null
                              ELSE scheduledStartTime[e]]
    /\ runningEventId' = Null
    /\ runningSegmentIndex' = 0
    /\ currentScreen' = "eventSettings"
    /\ SetComp(Unmounted)

\* a handler or callback of the mounted screen changed the component to r
Rerender(r) ==
    \E x \in {Commit(runningEventId, Comp, r, FALSE,
                     scheduledStartTime[runningEventId], now)} : SetComp(x)

\* the tick interval fires
Tick ==
    /\ Mounted
    /\ liveIntervals > 0
    /\ Rerender(tickCallback(runningEventId, Comp, now))
    /\ UNCHANGED << now, appVars, resetVars, runs, auxVars >>

\* Space is pressed
Space ==
    /\ Mounted
    /\ Rerender(spaceKey(runningEventId, Comp, now))
    /\ UNCHANGED << now, appVars, resetVars, runs, auxVars >>

\* the PAUSE button, rendered when running
ClickPause ==
    /\ Mounted
    /\ ~ allComplete /\ ~ isWaitingSchedule /\ status = "running"
    /\ Rerender(pause(Comp, now))
    /\ UNCHANGED << now, appVars, resetVars, runs, auxVars >>

\* the RESUME button, rendered when paused
ClickResume ==
    /\ Mounted
    /\ ~ allComplete /\ ~ isWaitingSchedule /\ status = "paused"
    /\ Rerender(resume(Comp, now))
    /\ UNCHANGED << now, appVars, resetVars, runs, auxVars >>

\* the schedule effect's interval fires: tick()
ScheduleTick ==
    /\ Mounted
    /\ schedInterval
    /\ now >= schedLastAt + SCHEDULE_CHECK_MS
    /\ Rerender([Comp EXCEPT
                   !.isWaitingSchedule =
                       IF scheduledStartTime[runningEventId] - now <= 0
                       THEN FALSE ELSE @,
                   !.schedLastAt = now])
    /\ UNCHANGED << now, appVars, resetVars, runs, auxVars >>

\* the START NOW button, rendered while waiting
StartNow ==
    /\ Mounted
    /\ isWaitingSchedule
    /\ Rerender([Comp EXCEPT !.isWaitingSchedule = FALSE])
    /\ UNCHANGED << now, appVars, resetVars, runs, auxVars >>

\* SegmentTransition's interval fires with pct >= 1: onComplete()
TransitionTick ==
    /\ Mounted
    /\ transStart # Null
    /\ now - transStart >= TRANSITION_DURATION
    /\ Rerender(handleTransitionComplete(Comp))
    /\ UNCHANGED << now, appVars, resetVars, runs, auxVars >>

\* the refs and the pointer state of the screen are gone with the screen
unmountRefs ==
    /\ rKeyHeldRef' = FALSE
    /\ rKeyHeldAt' = Null
    /\ resetPressedAt' = Null

\* handleResetAction when the runner is neither idle nor the event complete:
\* a new timeout is armed and stored; a timeout stored before is not cleared
armResetTimer ==
    /\ resetTimerRef = Null \/ Cardinality(staleResetTimers) < MaxStaleTimers
    /\ staleResetTimers' = staleResetTimers \cup ({resetTimerRef} \ {Null})
    /\ resetTimerRef' = now

\* clearResetTimers: clears the timeout resetTimerRef holds
clearResetTimers ==
    /\ resetTimerRef' = Null
    /\ UNCHANGED staleResetTimers

\* onMouseDown / onTouchStart of the reset button: handleResetAction
ResetDown ==
    /\ Mounted
    /\ ~ ResetTimerDue
    /\ resetPressedAt = Null
    /\ IF status = "idle" \/ allComplete
       THEN /\ exitTimer
            /\ unmountRefs
            /\ UNCHANGED << now, resetTimerRef, staleResetTimers, exitedResetTimers, runs, auxVars >>
       ELSE /\ armResetTimer
            /\ resetPressedAt' = now
            /\ UNCHANGED << now, appVars, compVars, exitedResetTimers, rKeyHeldRef, rKeyHeldAt,
                    runs, auxVars >>

\* onMouseUp / onMouseLeave / onTouchEnd of the reset button: handleResetMouseUp
ResetUp ==
    /\ Mounted
    /\ ~ ResetTimerDue
    /\ resetPressedAt # Null
    /\ clearResetTimers
    /\ resetPressedAt' = Null
    /\ UNCHANGED << now, appVars, compVars, exitedResetTimers, rKeyHeldRef, rKeyHeldAt,
                    runs, auxVars >>

\* handleKeyDown, case 'KeyR' (not a repeat): exit, or arm the long press
KeyRDown ==
    /\ Mounted
    /\ ~ ResetTimerDue
    /\ rKeyHeldAt = Null
    /\ IF status = "idle" \/ allComplete
       THEN /\ exitTimer
            /\ unmountRefs
            /\ UNCHANGED << now, resetTimerRef, staleResetTimers, exitedResetTimers, runs, auxVars >>
       ELSE /\ rKeyHeldAt' = now
            /\ IF ~ rKeyHeldRef
               THEN rKeyHeldRef' = TRUE /\ armResetTimer
               ELSE UNCHANGED << rKeyHeldRef, resetTimerRef, staleResetTimers >>
            /\ UNCHANGED << now, appVars, compVars, exitedResetTimers, resetPressedAt,
                    runs, auxVars >>

\* handleKeyUp of the R key
KeyRUp ==
    /\ Mounted
    /\ ~ ResetTimerDue
    /\ rKeyHeldAt # Null
    /\ rKeyHeldAt' = Null
    /\ IF rKeyHeldRef
       THEN rKeyHeldRef' = FALSE /\ clearResetTimers
       ELSE UNCHANGED << rKeyHeldRef, resetTimerRef, staleResetTimers >>
    /\ UNCHANGED << now, appVars, compVars, exitedResetTimers, resetPressedAt,
                    runs, auxVars >>

\* a long-press timeout fires: onExit(), then clearResetTimers()
ResetTimeout ==
    \E t \in ({resetTimerRef} \ {Null}) \cup staleResetTimers :
        /\ now - t >= RESET_HOLD_DURATION
        /\ exitTimer
        /\ unmountRefs
        /\ resetTimerRef' = Null
        /\ staleResetTimers' = staleResetTimers \ {t}
        /\ UNCHANGED << now, exitedResetTimers, runs, auxVars >>

\* a long-press timeout of a screen opened earlier fires: the same callback,
\* whose onExit is the App's exitTimer and whose refs are the earlier screen's
ExitedResetTimeout ==
    \E t \in exitedResetTimers :
        /\ now - t >= RESET_HOLD_DURATION
        /\ exitTimer
        /\ unmountRefs
        /\ exitedResetTimers' = exitedResetTimers \ {t}
        /\ UNCHANGED << now, resetTimerRef, staleResetTimers, runs, auxVars >>

Next ==
    \/ Advance
    \/ \E e \in EventIds : \E k \in StartIndices(e) : StartEvent(e, k)
    \/ \E e \in EventIds : ScheduleStart(e)
    \/ Tick
    \/ Space
    \/ ClickPause
    \/ ClickResume
    \/ ScheduleTick
    \/ StartNow
    \/ TransitionTick
    \/ ResetDown
    \/ ResetUp
    \/ ResetTimeout

Spec == Init /\ [][Next]_vars


\* ------------------------------------------- the hook's methods, any order
\* useTimer returns start, pause and resume to its caller; here they are
\* called in every state of the runner, as a caller of the hook may
StartCall ==
    /\ Mounted
    /\ Rerender(start(runningEventId, Comp, Comp, now))
    /\ UNCHANGED << now, appVars, resetVars, runs, auxVars >>

PauseCall ==
    /\ Mounted
    /\ Rerender(pause(Comp, now))
    /\ UNCHANGED << now, appVars, resetVars, runs, auxVars >>

ResumeCall ==
    /\ Mounted
    /\ Rerender(resume(Comp, now))
    /\ UNCHANGED << now, appVars, resetVars, runs, auxVars >>

RunnerNext ==
    \/ Advance
    \/ \E e \in EventIds : \E k \in StartIndices(e) : StartEvent(e, k)
    \/ Tick
    \/ TransitionTick
    \/ StartCall
    \/ PauseCall
    \/ ResumeCall

RunnerSpec == Init /\ [][RunnerNext]_vars

\* ------------------------------ the reset control, button and R key both
ResetNext ==
    \/ Advance
    \/ \E e \in EventIds : \E k \in StartIndices(e) : StartEvent(e, k)
    \/ Tick
    \/ Space
    \/ TransitionTick
    \/ ResetDown
    \/ ResetUp
    \/ KeyRDown
    \/ KeyRUp
    \/ ResetTimeout

ResetSpec == Init /\ [][ResetNext]_vars


\* ------------------------------------------------- exit and a later start
\* the timeouts of the screen that was open before belong to no screen now
orphanResetTimers ==
    /\ exitedResetTimers' = PendingResetTimers
    /\ resetTimerRef' = Null
    /\ staleResetTimers' = {}
    /\ UNCHANGED << rKeyHeldRef, rKeyHeldAt, resetPressedAt >>

\* App.startEvent from the event list, also after an earlier run was exited:
\* the new screen has refs of its own
StartEventAgain(e) ==
    /\ runs < MaxRuns + 1
    /\ ~ ResetTimerDue
    /\ openTimerScreen(e, 0)
    /\ orphanResetTimers

\* handleKeyDown, case 'Escape', with no blackout and no fullscreen
Escape ==
    /\ Mounted
    /\ ~ isBlackout
    /\ ~ ResetTimerDue
    /\ status = "idle" \/ allComplete
    /\ exitTimer
    /\ unmountRefs
    /\ UNCHANGED << now, resetTimerRef, staleResetTimers, exitedResetTimers, runs, auxVars >>

ExitNext ==
    \/ Advance
    \/ \E e \in EventIds : StartEventAgain(e)
    \/ Tick
    \/ TransitionTick
    \/ ResetDown
    \/ ResetUp
    \/ Escape
    \/ ResetTimeout
    \/ ExitedResetTimeout

ExitSpec == Init /\ [][ExitNext]_vars


\* ------------------------------------------- one evaluation of the alerts
\* the alert lists a segment can have: ids and colours by position,
\* thresholds and background flags free
EvalAlertIds == << "k1", "k2", "k3", "k4", "k5" >>

EvalAlertLists ==
    UNION {{[i \in 1 .. n |-> Alert(EvalAlertIds[i], th[i], EvalAlertIds[i], bg[i])] :
               th \in [1 .. n -> 1 .. MaxThreshold], bg \in [1 .. n -> BOOLEAN]} :
           n \in 0 .. MaxEvalAlerts}

\* the alert effect run at time on a segment of the given mode and alerts
evalAlerts(mode, alerts, time, x) ==
    IF alerts = << >> THEN x
    ELSE checkAlerts(mode, time, SortAlerts(mode, alerts), x)

\* a segment of any mode and alerts, with nothing fired yet or with what an
\* earlier evaluation (at an earlier value of the clock) has fired, and the
\* value the clock shows now
AlertEvalInit ==
    /\ TimerInit /\ AudioIdle /\ LoadIdle /\ WakeIdle /\ UiIdle
    /\ \E mode \in {"countdown", "countup"} : \E alerts \in EvalAlertLists :
       \E time \in 0 .. MaxEvalTime : \E fresh \in BOOLEAN :
       \E earlier \in 0 .. MaxEvalTime :
          /\ IF mode = "countdown" THEN earlier > time ELSE earlier < time
          /\ alertEval = [mode |-> mode, alerts |-> alerts, time |-> time,
                          before |-> IF fresh THEN NothingFired
                                     ELSE evalAlerts(mode, alerts, earlier, NothingFired),
                          after |-> NothingFired, done |-> FALSE]

\* the alert effect runs (the runner is running)
EvaluateAlerts ==
    /\ ~ alertEval.done
    /\ alertEval' = [alertEval EXCEPT
                       !.after = evalAlerts(alertEval.mode, alertEval.alerts,
                                            alertEval.time, alertEval.before),
                       !.done = TRUE]
    /\ UNCHANGED << timerVars, audioVars, loadVars, wakeVars, uiVars >>

AlertEvalNext == EvaluateAlerts

AlertEvalSpec == AlertEvalInit /\ [][AlertEvalNext]_vars


\* ------------------------------------------------------------------ flash
\* triggerFlash(color): the first call of flash() runs at once and arms the
\* timeout of the next
triggerFlash(color) ==
    /\ isFlashing' = TRUE
    /\ flashColor' = color
    /\ flashChains' = Append(flashChains,
                             [color |-> color, count |-> 1, dueAt |-> now + FLASH_STEP_MS])

\* an alert with flash fires, or a segment with flashEnabled completes
TriggerFlash(color) ==
    /\ Mounted
    /\ Len(flashChains) < MaxFlashChains
    /\ triggerFlash(color)
    /\ UNCHANGED << timerVars, audioVars, loadVars, wakeVars, isBlackout, blackoutKey, alertEval >>

\* chain i holds the timeout the browser runs next: none is due earlier, and
\* of those due at the same instant it was armed first
NextFlashTimeout(i) ==
    /\ now >= flashChains[i].dueAt
    /\ \A j \in DOMAIN flashChains :
          \/ flashChains[j].dueAt > flashChains[i].dueAt
          \/ (flashChains[j].dueAt = flashChains[i].dueAt /\ j >= i)

\* flashChains without its i-th chain
WithoutChain(i) ==
    SubSeq(flashChains, 1, i - 1) \o SubSeq(flashChains, i + 1, Len(flashChains))

\* the timeout of chain i fires: flash()
FlashTimeout(i) ==
    /\ NextFlashTimeout(i)
    /\ IF flashChains[i].count >= FLASH_STEPS
       THEN /\ isFlashing' = FALSE
            /\ flashColor' = ""
            /\ flashChains' = WithoutChain(i)
       ELSE /\ isFlashing' = TRUE
            /\ flashColor' = IF flashChains[i].count % 2 = 0
                             THEN flashChains[i].color ELSE ""
            /\ flashChains' = [flashChains EXCEPT ![i].count = @ + 1,
                                                  ![i].dueAt = now + FLASH_STEP_MS]
    /\ UNCHANGED << timerVars, audioVars, loadVars, wakeVars, isBlackout, blackoutKey, alertEval >>

\* time passes while no flash timeout is due
FlashAdvance ==
    /\ Mounted
    /\ \A i \in DOMAIN flashChains : now < flashChains[i].dueAt
    /\ now + FlashQuantum <= StartEpoch + MaxFlashTime
    /\ now' = now + FlashQuantum
    /\ UNCHANGED << appVars, compVars, resetVars, runs, auxVars >>

FlashNext ==
    \/ \E e \in EventIds : StartEvent(e, 0)
    \/ \E color \in {"red", "amber"} : TriggerFlash(color)
    \/ \E i \in DOMAIN flashChains : FlashTimeout(i)
    \/ FlashAdvance

FlashSpec == Init /\ [][FlashNext]_vars

\* ----------------------------------------------------------------- blackout
\* the keys pressed while the screen is blacked out
BlackoutKeys == {"KeyB", "Space", "Escape", "KeyA"}

\* handleKeyDown stays attached across every commit
handleKeyDownInvoked_stillAttached(before, after) == TRUE

\* whether the registered handleKeyDown still runs for a keydown after an
\* earlier listener of the same event took isBlackout from before to after:
\* the update of a key press is committed, effects included, before the next
\* listener runs, and the keyboard effect, which depends on isBlackout,
\* then removes the handleKeyDown it had registered; a listener removed during
\* the dispatch is not invoked, and one added during it is not either
handleKeyDownInvoked(before, after) == before = after

\* what handleKeyDown makes of isBlackout: KeyB toggles while running, Escape
\* clears it when the render it closed over was blacked out
keyDownBlackout(key, rendered, cur) ==
    CASE key = "KeyB" /\ status = "running" -> ~ cur
      [] key = "Escape" /\ rendered -> FALSE
      [] OTHER -> cur

\* B is pressed on the visible timer screen
KeyBDown ==
    /\ Mounted
    /\ ~ isBlackout
    /\ status = "running"
    /\ isBlackout' = keyDownBlackout("KeyB", isBlackout, isBlackout)
    /\ UNCHANGED << timerVars, audioVars, loadVars, wakeVars, blackoutKey,
                    isFlashing, flashColor, flashChains, alertEval >>

\* the blackout button, rendered while running
BlackoutButton ==
    /\ Mounted
    /\ ~ isBlackout
    /\ ~ allComplete /\ ~ isWaitingSchedule /\ status = "running"
    /\ isBlackout' = TRUE
    /\ UNCHANGED << timerVars, audioVars, loadVars, wakeVars, blackoutKey,
                    isFlashing, flashColor, flashChains, alertEval >>

\* a key is pressed while blacked out: the exit listener, registered before
\* handleKeyDown, runs first
KeyDownInBlackout(key) ==
    /\ Mounted
    /\ isBlackout
    /\ LET afterExit == FALSE
           invoked == handleKeyDownInvoked(isBlackout, afterExit)
       IN  /\ isBlackout' = IF invoked
                            THEN keyDownBlackout(key, isBlackout, afterExit)
                            ELSE afterExit
           /\ IF invoked /\ key = "Space"
              THEN Rerender(spaceKey(runningEventId, Comp, now))
              ELSE UNCHANGED compVars
    /\ blackoutKey' = key
    /\ UNCHANGED << now, appVars, resetVars, runs, audioVars, loadVars, wakeVars,
                    isFlashing, flashColor, flashChains, alertEval >>

\* the overlay is tapped
TapOverlay ==
    /\ Mounted
    /\ isBlackout
    /\ isBlackout' = FALSE
    /\ UNCHANGED << timerVars, audioVars, loadVars, wakeVars, blackoutKey,
                    isFlashing, flashColor, flashChains, alertEval >>

\* the overlay covers the buttons, and a key goes to the exit listener
BlackoutNext ==
    \/ Advance
    \/ \E e \in EventIds : StartEvent(e, 0)
    \/ Tick
    \/ TransitionTick
    \/ (~ isBlackout /\ Space)
    \/ (~ isBlackout /\ ClickPause)
    \/ KeyBDown
    \/ BlackoutButton
    \/ \E key \in BlackoutKeys : KeyDownInBlackout(key)
    \/ TapOverlay

BlackoutSpec == Init /\ [][BlackoutNext]_vars


\* ------------------------------------------ completion sound and fallback
\* a playCustom call that has just been made
NewSoundCall(phase) == [phase |-> phase, finishInvoked |-> 0]

\* AudioService.playCustom up to its first await: returns at once (a resolved
\* promise, no sound) when audio is disabled or muted, otherwise enters the
\* Web Audio path
playCustom == IF ~ audioEnabled \/ audioVolume = 0
              THEN NewSoundCall("resolvedSilent")
              ELSE NewSoundCall("primary")

\* a catch handler that does nothing
onCustomRejected_ignored(c) == c

\* .catch(() => { audioService.play('finish'); })
onCustomRejected(c) == [c EXCEPT !.finishInvoked = @ + 1]

\* handleSegmentComplete, the sound branch, for a segment whose soundEnabled
\* is se
AudioComplete(se) ==
    /\ Len(soundCalls) < MaxSoundCalls
    /\ soundCalls' = Append(soundCalls,
                            IF se THEN playCustom ELSE NewSoundCall("notRequested"))
    /\ UNCHANGED << timerVars, audioEnabled, audioVolume, loadVars, wakeVars, uiVars, alertEval >>

\* the Web Audio path of call i succeeds (source.start()) or throws
PrimarySettles(i, ok) ==
    /\ soundCalls[i].phase = "primary"
    /\ soundCalls' = [soundCalls EXCEPT
                        ![i].phase = IF ok THEN "resolved" ELSE "fallback"]
    /\ UNCHANGED << timerVars, audioEnabled, audioVolume, loadVars, wakeVars, uiVars, alertEval >>

\* the HTMLAudioElement path of call i: audio.play() resolves, or rejects and
\* playCustom rethrows, which runs the caller's catch handler
FallbackSettles(i, ok) ==
    /\ soundCalls[i].phase = "fallback"
    /\ soundCalls' = [soundCalls EXCEPT
                        ![i] = IF ok THEN [@ EXCEPT !.phase = "resolved"]
                               ELSE onCustomRejected([@ EXCEPT !.phase = "rejected"])]
    /\ UNCHANGED << timerVars, audioEnabled, audioVolume, loadVars, wakeVars, uiVars, alertEval >>

\* the user's sound settings, any of them
AudioInit ==
    /\ TimerInit
    /\ audioEnabled \in BOOLEAN
    /\ audioVolume \in {0, DEFAULT_VOLUME}
    /\ soundCalls = << >>
    /\ LoadIdle
    /\ WakeIdle
    /\ UiIdle
    /\ AlertEvalIdle

AudioNext ==
    \/ \E se \in BOOLEAN : AudioComplete(se)
    \/ \E i \in 1 .. Len(soundCalls) : \E ok \in BOOLEAN : PrimarySettles(i, ok)
    \/ \E i \in 1 .. Len(soundCalls) : \E ok \in BOOLEAN : FallbackSettles(i, ok)

AudioSpec == AudioInit /\ [][AudioNext]_vars


\* ------------------------------------------------- loading saved documents
\* a field of a JSON object: absent, or present with a value
Absent == << >>
Present(v) == << v >>

OptionalBool == {Absent, Present(TRUE), Present(FALSE)}

\* the alerts a saved segment can carry
SavedAlert == [timeInSeconds : {10}, color : {"saved"}, background : OptionalBool]

SavedAlertLists == UNION {[1 .. n -> SavedAlert] : n \in 0 .. MaxSavedAlerts}

\* the segments a saved document can carry, of any earlier version
SavedSegment == [tickEnabled : OptionalBool,
                 colorAlerts : {Absent} \cup {Present(a) : a \in SavedAlertLists},
                 backgroundColor : {Absent, Present("#FF0000")}]

SavedDocs == UNION {[1 .. n -> SavedSegment] : n \in 0 .. MaxSavedSegments}

\* a migration that overwrites the alert's background
migrateAlert_overwrite(a) == [a EXCEPT !.background = Present(TRUE)]

\* if (alert.background === undefined) alert.background = true
migrateAlert(a) ==
    IF a.background = Absent THEN [a EXCEPT !.background = Present(TRUE)] ELSE a

\* if (seg.tickEnabled === undefined) seg.tickEnabled = false
migrateTick(seg) ==
    IF seg.tickEnabled = Absent THEN [seg EXCEPT !.tickEnabled = Present(FALSE)] ELSE seg

\* if (seg.colorAlerts) for (const alert of seg.colorAlerts) ...
migrateAlerts(seg) ==
    IF seg.colorAlerts # Absent
    THEN [seg EXCEPT !.colorAlerts =
            Present([j \in DOMAIN seg.colorAlerts[1] |-> migrateAlert(seg.colorAlerts[1][j])])]
    ELSE seg

\* (seg as any).backgroundColor || '#3B82F6'
oldColorOf(seg) ==
    IF seg.backgroundColor = Absent THEN "#3B82F6" ELSE seg.backgroundColor[1]

\* the three alerts given to a segment saved without colorAlerts
defaultAlerts(oldColor) ==
    << [timeInSeconds |-> 300, color |-> "#EAB308", background |-> Present(TRUE)],
       [timeInSeconds |-> 60, color |-> "#F97316", background |-> Present(TRUE)],
       [timeInSeconds |-> 10, color |-> oldColor, background |-> Present(TRUE)] >>

\* if (!seg.colorAlerts) { seg.colorAlerts = [...]; delete seg.backgroundColor }
migrateBackgroundColor(seg) ==
    IF seg.colorAlerts = Absent
    THEN [seg EXCEPT !.colorAlerts = Present(defaultAlerts(oldColorOf(seg))),
                     !.backgroundColor = Absent]
    ELSE seg

\* the body of loadAppState's loop over the segments
migrateSegment(seg) == migrateBackgroundColor(migrateAlerts(migrateTick(seg)))

\* loadAppState: parse the saved document and migrate every segment
loadAppState ==
    /\ ~ loadedDoc.loaded
    /\ loadedDoc' = [loaded |-> TRUE,
                     segments |-> [i \in DOMAIN savedDoc |-> migrateSegment(savedDoc[i])]]
    /\ UNCHANGED << timerVars, audioVars, savedDoc, wakeVars, uiVars, alertEval >>

\* the App's persistence effect: saveEvents(appState.events)
saveEvents ==
    /\ loadedDoc.loaded
    /\ savedDoc # loadedDoc.segments
    /\ savedDoc' = loadedDoc.segments
    /\ UNCHANGED << timerVars, audioVars, loadedDoc, wakeVars, uiVars, alertEval >>

\* the page is opened again
Reload ==
    /\ loadedDoc.loaded
    /\ loadedDoc' = NotLoaded
    /\ UNCHANGED << timerVars, audioVars, savedDoc, wakeVars, uiVars, alertEval >>

\* any saved document, not loaded yet
LoadInit ==
    /\ TimerInit
    /\ AudioIdle
    /\ WakeIdle
    /\ UiIdle
    /\ AlertEvalIdle
    /\ savedDoc \in SavedDocs
    /\ loadedDoc = NotLoaded

LoadNext ==
    \/ loadAppState
    \/ saveEvents
    \/ Reload

LoadSpec == LoadInit /\ [][LoadNext]_vars


\* ---------------------------------------------------------------- wake lock
\* the dependencies of the wake lock effect in the current render
wakeDeps ==
    IF Mounted
    THEN [mounted |-> TRUE, screenOn |-> screenOn, status |-> status]
    ELSE [mounted |-> FALSE, screenOn |-> FALSE, status |-> "idle"]

\* the wake lock effect has run for the current render
WakeSynced == wakeSeen = wakeDeps

\* room for one more request under the bound
WakeRoom == wakePending + wakeHeld < MaxWakeLocks

\* useWakeLock.request up to its await: the request is outstanding
request ==
    /\ wakePending' = wakePending + 1
    /\ UNCHANGED << wakeLockRef, wakeHeld >>

\* useWakeLock.release: releases the sentinel the ref holds, if it holds one
release ==
    /\ wakeLockRef' = FALSE
    /\ wakeHeld' = IF wakeLockRef THEN wakeHeld - 1 ELSE wakeHeld
    /\ UNCHANGED wakePending

\* the wake lock effect of TimerRunningScreen, run after a render whose
\* screenOn or timer.status changed
wakeLockEffect ==
    /\ Mounted
    /\ ~ WakeSynced
    /\ wakeSeen' = wakeDeps
    /\ IF screenOn \/ status = "running" THEN request ELSE release
    /\ UNCHANGED << timerVars, audioVars, loadVars, uiVars, alertEval, screenOn >>

\* an outstanding navigator.wakeLock.request settles: with a new sentinel,
\* which the continuation of request stores in the ref, or with an error
RequestSettles(ok) ==
    /\ wakePending > 0
    /\ wakePending' = wakePending - 1
    /\ wakeHeld' = IF ok THEN wakeHeld + 1 ELSE wakeHeld
    /\ wakeLockRef' = IF ok THEN TRUE ELSE wakeLockRef
    /\ UNCHANGED << timerVars, audioVars, loadVars, uiVars, alertEval, screenOn, wakeSeen >>

\* the W key or the keep-screen-on button: setScreenOn(prev => !prev)
ToggleScreenOn ==
    /\ Mounted
    /\ WakeSynced
    /\ WakeRoom
    /\ screenOn' = ~ screenOn
    /\ UNCHANGED << timerVars, audioVars, loadVars, uiVars, alertEval, wakeSeen, wakeLockRef,
                    wakePending, wakeHeld >>

\* the timer's events, each followed by the wake lock effect before the next
WakeNext ==
    \/ WakeSynced /\ Advance
    \/ \E e \in EventIds : WakeSynced /\ WakeRoom /\ StartEvent(e, 0)
    \/ WakeSynced /\ Tick
    \/ WakeSynced /\ ClickPause
    \/ WakeSynced /\ WakeRoom /\ ClickResume
    \/ WakeSynced /\ WakeRoom /\ TransitionTick
    \/ ToggleScreenOn
    \/ wakeLockEffect
    \/ \E ok \in BOOLEAN : RequestSettles(ok)

WakeSpec == Init /\ [][WakeNext]_vars

\* ======================================================== claims C1 .. C10
curSeg == SegmentAt(runningEventId, currentSegmentIndex)

\* the elapsed time the next tick callback computes
tickElapsedMs == now - startTimeRef - totalPausedMsRef

RECURSIVE CountIn(_, _)
CountIn(log, id) ==
    IF log = << >> THEN 0
    ELSE (IF Head(log) = id THEN 1 ELSE 0) + CountIn(Tail(log), id)

\* C1: for any sequence of start, pause and resume calls, the elapsed time a
\* tick uses at instant t is t - startInstant - (sum of the completed pause
\* intervals), whenever a tick can be delivered.
C1_ElapsedExcludesPauses ==
    (Mounted /\ intervalRef) => tickElapsedMs = now - runBeganAt - pausedTotal


\* C2: within one segment run every alert fires at most once: the effects of
\* an alert id never run twice between two clearings of the fired set, and
\* while the same segment of the same screen stays active no id leaves the
\* fired set.
C2_AtMostOncePerRun ==
    /\ [](\A i \in 1 .. Len(firedLog) : CountIn(firedLog, firedLog[i]) = 1)
    /\ []((Mounted /\ firedLog # << >>) =>
             triggeredAlertIds = {firedLog[i] : i \in 1 .. Len(firedLog)})
    /\ [][(Mounted /\ Mounted' /\ currentSegmentIndex' = currentSegmentIndex)
            => triggeredAlertIds \subseteq triggeredAlertIds']_vars

\* C2 witness: an alert has fired, and a later tick has moved the display
\* further past its threshold without firing it again.
C2_Witness ==
    /\ Mounted /\ status = "running"
    /\ curSeg.mode = "countup"
    /\ \E i \in 1 .. Len(curSeg.colorAlerts) :
          /\ curSeg.colorAlerts[i].id \in triggeredAlertIds
          /\ timeInSeconds > curSeg.colorAlerts[i].timeInSeconds

\* the alerts of segment seg that a step from display value before to
\* display value after crosses
Crossed(seg, before, after) ==
    {i \in 1 .. Len(seg.colorAlerts) :
        IF seg.mode = "countdown"
        THEN before > seg.colorAlerts[i].timeInSeconds
             /\ after <= seg.colorAlerts[i].timeInSeconds
        ELSE before < seg.colorAlerts[i].timeInSeconds
             /\ after >= seg.colorAlerts[i].timeInSeconds}

\* C3: when a tick of a running segment moves the displayed value from one
\* side of an alert's threshold to any value at or past it, that alert has
\* fired exactly once after the tick.
C3_CrossingFires ==
    [][(Tick /\ status = "running") =>
          \A i \in Crossed(curSeg, timeInSeconds, timeInSeconds') :
              /\ curSeg.colorAlerts[i].id \in triggeredAlertIds'
              /\ CountIn(firedLog', curSeg.colorAlerts[i].id) = 1]_vars

\* C4: a countdown segment of N seconds becomes completed at exactly the
\* ticks whose elapsedMs is at least N*1000, displays 0 at that tick, and
\* never displays a negative value.
C4_CountdownCompletion ==
    /\ [][(Tick /\ curSeg.mode = "countdown") =>
            /\ (status' = "completed") <=>
                  (tickElapsedMs >= curSeg.durationSeconds * MS_PER_SECOND)
            /\ (status' = "completed") => (timeInSeconds' = 0)]_vars
    /\ []((Mounted /\ curSeg.mode = "countdown") => timeInSeconds >= 0)

\* C4 witness: a countdown segment completed by a tick that came late, more
\* than a second after the duration had elapsed.
C4_Witness ==
    /\ Mounted /\ curSeg.mode = "countdown"
    /\ status = "completed" /\ timeInSeconds = 0
    /\ startTimeRef # Null
    /\ tickElapsedMs > (curSeg.durationSeconds + 1) * MS_PER_SECOND
    /\ isTransitioning /\ now - transStart = 0

\* C5: a count-up segment with durationSeconds > 0 becomes completed at
\* exactly the ticks whose elapsed seconds reach durationSeconds and then
\* displays durationSeconds; with durationSeconds = 0 it is never completed.
C5_CountupCompletion ==
    /\ [][(Tick /\ curSeg.mode = "countup") =>
            /\ (status' = "completed") <=>
                  /\ curSeg.durationSeconds > 0
                  /\ elapsedSecondsOf(tickElapsedMs) >= curSeg.durationSeconds
            /\ (status' = "completed") =>
                  (timeInSeconds' = curSeg.durationSeconds)]_vars
    /\ []((Mounted /\ curSeg.mode = "countup" /\ curSeg.durationSeconds = 0)
             => status # "completed")

\* C5 witness: an unbounded count-up segment still running after 3 seconds.
C5_Witness ==
    /\ Mounted /\ curSeg.mode = "countup" /\ curSeg.durationSeconds = 0
    /\ status = "running" /\ timeInSeconds >= 3

\* a bounded count-up segment completed by a tick, displaying its duration
C5_WitnessBounded ==
    /\ Mounted /\ curSeg.mode = "countup" /\ curSeg.durationSeconds > 0
    /\ status = "completed" /\ timeInSeconds = curSeg.durationSeconds


lastIndex == Len(Events[runningEventId].segments) - 1

\* what the alert evaluation leaves when it starts from an empty fired set
\* at the initial value of segment seg
FreshStart(seg) ==
    checkAlerts(seg.mode, InitialTime(seg), sortedAlerts(seg),
                [triggeredAlertIds |-> {}, firedLog |-> << >>,
                 activeAlertColor |-> ""])

\* C6: when a segment that is not the last completes, the event enters the
\* transitioning phase; the segment index changes only once the transition
\* has lasted TRANSITION_DURATION, then by exactly +1, and the new segment
\* is running at its initial value, with elapsed 0 and with the fired set
\* and alert colour of an evaluation that started from nothing.
C6_AutoAdvance ==
    /\ [][(Tick /\ status' = "completed" /\ currentSegmentIndex < lastIndex)
            => (isTransitioning' /\ transStart' # Null)]_vars
    /\ [][(Mounted /\ Mounted' /\ currentSegmentIndex' # currentSegmentIndex) =>
            /\ transStart # Null
            /\ now - transStart >= TRANSITION_DURATION
            /\ currentSegmentIndex' = currentSegmentIndex + 1
            /\ ~ isTransitioning'
            /\ status' = "running"
            /\ timeInSeconds' = InitialTime(curSeg')
            /\ startTimeRef' = now
            /\ triggeredAlertIds' = FreshStart(curSeg').triggeredAlertIds
            /\ activeAlertColor' = FreshStart(curSeg').activeAlertColor]_vars

\* C7: when the last segment completes, allComplete is set and no transition
\* starts; from a completed event, no step other than a user action changes
\* allComplete, the segment index or the completed status of the runner.
C7_CompletionTerminal ==
    /\ [][(Tick /\ status' = "completed" /\ currentSegmentIndex = lastIndex)
            => (allComplete' /\ ~ isTransitioning')]_vars
    /\ [][(Mounted /\ allComplete /\ status = "completed"
             /\ (Advance \/ Tick \/ ScheduleTick \/ TransitionTick)) =>
            /\ allComplete'
            /\ currentSegmentIndex' = currentSegmentIndex
            /\ status' = "completed"]_vars

\* C8: a start scheduled in the future is waiting immediately; while the gate
\* is waiting the runner is not running and no tick interval is live; and the
\* gate opens only when a check sees now >= scheduledStartTime or START NOW
\* is pressed.
C8_GateNeverEarly ==
    /\ [][(\E e \in EventIds : ScheduleStart(e)) => isWaitingSchedule']_vars
    /\ []((Mounted /\ isWaitingSchedule) => (status # "running" /\ ~ intervalRef))
    /\ [][(Mounted /\ Mounted' /\ isWaitingSchedule /\ ~ isWaitingSchedule') =>
            (StartNow \/ now >= scheduledStartTime[runningEventId])]_vars

\* C9: while waiting, a schedule check that sees now >= scheduledStartTime,
\* or START NOW, opens the gate; when the gate opens the runner has started:
\* its status is running, it shows its initial value and its tick interval
\* is live; and an open gate never waits again in that run.
C9_GateRelease ==
    /\ [][(Mounted /\ isWaitingSchedule
             /\ (StartNow \/ (ScheduleTick
                               /\ now >= scheduledStartTime[runningEventId])))
            => ~ isWaitingSchedule']_vars
    /\ [][(Mounted /\ Mounted' /\ isWaitingSchedule /\ ~ isWaitingSchedule') =>
            /\ status' = "running"
            /\ timeInSeconds' = InitialTime(curSeg)
            /\ intervalRef']_vars
    /\ [][(Mounted /\ Mounted' /\ ~ isWaitingSchedule) => ~ isWaitingSchedule']_vars

\* a step in which a segment run begins
RunBegins ==
    /\ Mounted' /\ status' = "running"
    /\ \/ ~ Mounted
       \/ status \in {"idle", "completed"}
       \/ currentSegmentIndex' # currentSegmentIndex
       \/ (runBeganAt' # runBeganAt /\ runBeganAt' # Null)

\* C10: every time a segment run begins, the fired set is that of an
\* evaluation started from the empty set, and the tracker is fresh: no start
\* instant carried over, pausedAtRef null, totalPausedMsRef 0.
C10_FreshRun ==
    [][RunBegins =>
          /\ triggeredAlertIds' = FreshStart(curSeg').triggeredAlertIds
          /\ startTimeRef' \in {Null, now}
          /\ pausedAtRef' = Null
          /\ totalPausedMsRef' = 0]_vars


\* ====================================================== claims C11 .. C20
\* C11: pause() changes nothing unless the runner is running and resume()
\* changes nothing unless it is paused: status, pausedAtRef and
\* totalPausedMsRef are as before the call (in particular an idle or
\* completed runner stays idle or completed).
C11_PauseResumeGuards ==
    /\ [][(PauseCall /\ status # "running") =>
            /\ status' = status
            /\ pausedAtRef' = pausedAtRef
            /\ totalPausedMsRef' = totalPausedMsRef]_vars
    /\ [][(ResumeCall /\ status # "paused") =>
            /\ status' = status
            /\ pausedAtRef' = pausedAtRef
            /\ totalPausedMsRef' = totalPausedMsRef]_vars

\* C12: the schedule is one-shot: START NOW clears the event's
\* scheduledStartTime, and so does leaving the timer screen.
C12_ScheduleOneShot ==
    /\ [][StartNow => scheduledStartTime'[runningEventId] = Null]_vars
    /\ [][(Mounted /\ ~ Mounted') => scheduledStartTime'[runningEventId] = Null]_vars

\* C13: startEvent with an index that names no segment of the event changes
\* neither the current screen, nor runningEventId, nor runningSegmentIndex.
C13_StartIndexValidated ==
    [][\A e \in EventIds : \A k \in StartIndices(e) :
          (StartEvent(e, k) /\ ~ HasSegment(e, k)) =>
              UNCHANGED << currentScreen, runningEventId, runningSegmentIndex >>]_vars


\* C14: the screen is left from a running or paused timer of an event that
\* is not complete only when the reset button or the R key has been held
\* for RESET_HOLD_DURATION; and a press of the reset control while the
\* timer is idle or the event complete leaves the screen at once.
C14_LongPressExit ==
    /\ [][(Mounted /\ ~ Mounted' /\ status \in {"running", "paused"} /\ ~ allComplete) =>
            \/ resetPressedAt # Null /\ now - resetPressedAt >= RESET_HOLD_DURATION
            \/ rKeyHeldAt # Null /\ now - rKeyHeldAt >= RESET_HOLD_DURATION]_vars
    /\ [][((ResetDown \/ KeyRDown) /\ (status = "idle" \/ allComplete))
            => ~ Mounted']_vars


\* the alerts of segment seg whose threshold is the terminal value
Terminal(seg) ==
    {i \in 1 .. Len(seg.colorAlerts) :
        IF seg.mode = "countdown"
        THEN seg.colorAlerts[i].timeInSeconds = 0
        ELSE seg.durationSeconds > 0
             /\ seg.colorAlerts[i].timeInSeconds = seg.durationSeconds}

\* C18: when a tick completes a running segment, every alert whose threshold
\* is the terminal value has fired by the time the segment is completed.
C18_TerminalAlertFires ==
    [][(Tick /\ status = "running" /\ status' = "completed") =>
          \A i \in Terminal(curSeg) :
              curSeg.colorAlerts[i].id \in triggeredAlertIds']_vars

\* the ids that fire in a step
NewlyFired ==
    {id \in triggeredAlertIds' :
        \/ id \notin triggeredAlertIds
        \/ currentSegmentIndex' # currentSegmentIndex
        \/ ~ Mounted}

\* alerts fire only where their condition holds on the displayed value
C19_OnlyWhereConditionHolds ==
    [][Mounted' =>
          \A i \in 1 .. Len(curSeg'.colorAlerts) :
              curSeg'.colorAlerts[i].id \in NewlyFired =>
                  shouldTrigger(curSeg'.mode, timeInSeconds', curSeg'.colorAlerts[i])]_vars

\* a countdown alert with threshold T < N does not fire at a tick whose
\* whole elapsed seconds are below N - T
C19_NotBeforeItsSecond ==
    [][(Tick /\ curSeg.mode = "countdown") =>
          \A i \in 1 .. Len(curSeg.colorAlerts) :
              (/\ curSeg.colorAlerts[i].id \in NewlyFired
               /\ curSeg.colorAlerts[i].timeInSeconds < curSeg.durationSeconds)
              => elapsedSecondsOf(tickElapsedMs) >=
                    curSeg.durationSeconds - curSeg.colorAlerts[i].timeInSeconds]_vars

\* a countdown alert with threshold T < N that has not fired fires at the
\* first tick whose whole elapsed seconds reach N - T
C19_FiresAtItsSecond ==
    [][(Tick /\ status = "running" /\ curSeg.mode = "countdown") =>
          \A i \in 1 .. Len(curSeg.colorAlerts) :
              (/\ curSeg.colorAlerts[i].id \notin triggeredAlertIds
               /\ curSeg.colorAlerts[i].timeInSeconds < curSeg.durationSeconds
               /\ elapsedSecondsOf(tickElapsedMs) >=
                     curSeg.durationSeconds - curSeg.colorAlerts[i].timeInSeconds)
              => curSeg.colorAlerts[i].id \in triggeredAlertIds']_vars

\* C19: alerts never fire early: an alert fires only in an evaluation where
\* its condition holds (countdown: remaining <= threshold, count-up:
\* elapsed >= threshold), and a countdown alert with threshold T < N fires
\* at the first tick with floor(elapsedMs/1000) >= N - T, not before.
C19_AlertTiming ==
    /\ C19_OnlyWhereConditionHolds
    /\ C19_NotBeforeItsSecond
    /\ C19_FiresAtItsSecond

\* the completion condition of the running segment holds at this instant
completionReached ==
    IF curSeg.mode = "countdown"
    THEN countdownDone(remainingOf(initialTimeRef, elapsedSecondsOf(tickElapsedMs)))
    ELSE countupDone(curSeg, elapsedSecondsOf(tickElapsedMs))

C15_FinishFallback ==
    /\ [](\A i \in 1 .. Len(soundCalls) :
            soundCalls[i].phase = "rejected" => soundCalls[i].finishInvoked = 1)
    /\ [](\A i \in 1 .. Len(soundCalls) :
            soundCalls[i].phase # "rejected" => soundCalls[i].finishInvoked = 0)

\* C15 witness: both playback paths of a completion's custom sound failed
C15_Witness ==
    \E i \in 1 .. Len(soundCalls) :
        soundCalls[i].phase = "rejected" /\ soundCalls[i].finishInvoked = 1


\* C16: loading a saved document gives tickEnabled = false to exactly the
\* segments saved without tickEnabled and background = true to exactly the
\* alerts saved without background; every segment and alert of the saved
\* document is loaded, with the fields that were present unchanged.
C16_LoadDefaults ==
    [][loadAppState =>
        /\ Len(loadedDoc'.segments) = Len(savedDoc)
        /\ \A i \in DOMAIN savedDoc :
            /\ loadedDoc'.segments[i].tickEnabled =
                 IF savedDoc[i].tickEnabled = Absent THEN Present(FALSE)
                 ELSE savedDoc[i].tickEnabled
            /\ savedDoc[i].colorAlerts # Absent =>
                 /\ loadedDoc'.segments[i].colorAlerts # Absent
                 /\ loadedDoc'.segments[i].backgroundColor = savedDoc[i].backgroundColor
                 /\ Len(loadedDoc'.segments[i].colorAlerts[1]) = Len(savedDoc[i].colorAlerts[1])
                 /\ \A j \in DOMAIN savedDoc[i].colorAlerts[1] :
                      /\ loadedDoc'.segments[i].colorAlerts[1][j].background =
                           IF savedDoc[i].colorAlerts[1][j].background = Absent
                           THEN Present(TRUE)
                           ELSE savedDoc[i].colorAlerts[1][j].background
                      /\ loadedDoc'.segments[i].colorAlerts[1][j].timeInSeconds =
                           savedDoc[i].colorAlerts[1][j].timeInSeconds
                      /\ loadedDoc'.segments[i].colorAlerts[1][j].color =
                           savedDoc[i].colorAlerts[1][j].color]_vars

\* a document was loaded in which one segment lacked tickEnabled and its alert
\* lacked background, and another segment had tickEnabled = true and an alert
\* with background = false
C16_Witness ==
    /\ loadedDoc.loaded
    /\ Len(loadedDoc.segments) = Len(savedDoc)
    /\ \E i \in DOMAIN savedDoc :
        /\ savedDoc[i].tickEnabled = Absent
        /\ loadedDoc.segments[i].tickEnabled = Present(FALSE)
        /\ savedDoc[i].colorAlerts # Absent
        /\ \E j \in DOMAIN savedDoc[i].colorAlerts[1] :
            /\ savedDoc[i].colorAlerts[1][j].background = Absent
            /\ loadedDoc.segments[i].colorAlerts[1][j].background = Present(TRUE)
    /\ \E i \in DOMAIN savedDoc :
        /\ savedDoc[i].tickEnabled = Present(TRUE)
        /\ loadedDoc.segments[i].tickEnabled = Present(TRUE)
        /\ savedDoc[i].colorAlerts # Absent
        /\ \E j \in DOMAIN savedDoc[i].colorAlerts[1] :
            /\ savedDoc[i].colorAlerts[1][j].background = Present(FALSE)
            /\ loadedDoc.segments[i].colorAlerts[1][j].background = Present(FALSE)


\* C17: whenever the timer is not running, the keep-screen-on toggle is off,
\* the wake lock effect has run and no request is outstanding, no wake lock
\* is held.
C17_ReleasedWhenNotRunning ==
    (Mounted /\ WakeSynced /\ wakePending = 0 /\ ~ screenOn /\ status # "running")
        => wakeHeld = 0


\* ------------------------------------------------------- claims C21..C30
\* within one run the segment index never decreases
C21_IndexNeverDecreases ==
    [][(Mounted /\ Mounted') => currentSegmentIndex' >= currentSegmentIndex]_vars

\* within one run the segment index changes only by +1, at the end of a
\* transition
C21_StepsAtTransitionEnd ==
    [][(Mounted /\ Mounted' /\ currentSegmentIndex' # currentSegmentIndex)
         => /\ currentSegmentIndex' = currentSegmentIndex + 1
            /\ TransitionTick
            /\ isTransitioning /\ ~ isTransitioning']_vars

\* during a run the segment index is a valid index of the event's segments,
\* not below the index the run was started at
C21_IndexValid ==
    Mounted => /\ runningSegmentIndex <= currentSegmentIndex
               /\ currentSegmentIndex <= lastIndex

\* C21: during a run the segment index never decreases, changes only by +1 at
\* the end of a transition, and always is a valid index of the event's
\* segment list (startSegmentIndex <= index <= segments.length - 1).
C21_SegmentIndex ==
    /\ C21_IndexNeverDecreases
    /\ C21_StepsAtTransitionEnd
    /\ [] C21_IndexValid


\* C22: a callback scheduled by a timer screen that has been exited changes
\* neither the application state nor the run state when it fires, also when
\* a new run was started after the exit.
C22_NoStaleCallback ==
    [][ExitedResetTimeout => UNCHANGED << appVars, compVars >>]_vars


\* a tick interval exists only while the runner is running, and then it is
\* the one intervalRef holds
C23_OnlyWhileRunning ==
    /\ liveIntervals > 0 => (Mounted /\ status = "running")
    /\ liveIntervals > 0 <=> intervalRef

\* at most one tick interval exists
C23_AtMostOne == liveIntervals <= 1

\* C23: a tick interval is active only while the runner's status is running,
\* at most one is active at any time, and none is left once the runner has
\* left running (pause, completion, segment change, exit).
C23_TickInterval == C23_OnlyWhileRunning /\ C23_AtMostOne

\* the runner was paused after it ran with its tick interval
C23_Witness ==
    /\ Mounted /\ status = "paused" /\ liveIntervals = 0
    /\ startTimeRef # Null /\ pausedAtRef # Null


\* what is shown and emitted: the displayed value, the alerts fired, the
\* completions
Emitted == << timeInSeconds, firedLog, completionCalls, activeAlertColor >>

\* while the runner stays paused nothing is shown or emitted anew, however
\* much time passes
C24_FrozenWhilePaused ==
    [][(Mounted /\ status = "paused" /\ Mounted' /\ status' = "paused")
         => UNCHANGED Emitted]_vars

\* a resume of the paused runner
ResumeStep ==
    /\ Mounted /\ status = "paused" /\ status' = "running"
    /\ Space \/ ClickResume

\* a resume leaves the displayed value as it is, fires and completes nothing,
\* and the elapsed time the next tick computes is the one of the pause instant
\* (0 if the runner had not begun to tick)
C24_ResumeContinues ==
    [][ResumeStep =>
         /\ UNCHANGED Emitted
         /\ startTimeRef' # Null
         /\ now - startTimeRef' - totalPausedMsRef'
              = IF startTimeRef = Null THEN 0
                ELSE pauseBeganAt - startTimeRef - totalPausedMsRef]_vars

\* C24: while the runner is paused the displayed value does not change, no
\* alert fires and no completion is emitted, for any amount of time that
\* passes; after resume the displayed value continues from the value it had
\* at the pause instant.
C24_PauseFreezes == C24_FrozenWhilePaused /\ C24_ResumeContinues


\* the ids fired by the evaluation under study, in the order they fired
evalNewlyFired ==
    SubSeq(alertEval.after.firedLog, Len(alertEval.before.firedLog) + 1,
           Len(alertEval.after.firedLog))

\* the alert of the segment under study that has id k
evalAlertOf(k) ==
    CHOOSE a \in {alertEval.alerts[i] : i \in DOMAIN alertEval.alerts} : a.id = k

\* the ids of the alerts that have not fired and whose threshold the clock
\* has reached
evalCrossed ==
    {alertEval.alerts[i].id : i \in
        {j \in DOMAIN alertEval.alerts :
            /\ alertEval.alerts[j].id \notin alertEval.before.triggeredAlertIds
            /\ IF alertEval.mode = "countdown"
               THEN alertEval.time <= alertEval.alerts[j].timeInSeconds
               ELSE alertEval.time >= alertEval.alerts[j].timeInSeconds}}

\* the positions in the firing order of the alerts with background enabled
evalBackgroundFired ==
    {i \in DOMAIN evalNewlyFired : evalAlertOf(evalNewlyFired[i]).background}

AtStartAlerts(seg) ==
    IF seg.mode # "countdown" THEN {}
    ELSE {seg.colorAlerts[i].id : i \in
            {j \in DOMAIN seg.colorAlerts :
                seg.colorAlerts[j].timeInSeconds >= seg.durationSeconds}}

\* while a countdown segment is running, each such alert has fired, once
C26_FiredOnceWhileRunning ==
    (Mounted /\ status = "running") =>
        \A k \in AtStartAlerts(curSeg) :
            k \in triggeredAlertIds /\ CountIn(firedLog, k) = 1

\* in the step in which a countdown segment starts running, each such alert
\* fires
C26_FiresAtStart ==
    [][RunBegins => \A k \in AtStartAlerts(curSeg') :
                       k \in NewlyFired /\ CountIn(firedLog', k) = 1]_vars

\* C26: for a countdown segment an alert whose threshold is >= durationSeconds
\* fires at once when the segment starts running, before any second has
\* elapsed, and exactly once.
C26_ThresholdAtStart == [] C26_FiredOnceWhileRunning /\ C26_FiresAtStart


\* the run state of a component record: what the screen and the runner hold,
\* without the schedule bookkeeping and the observations
RunState(x) ==
    << x.currentSegmentIndex, x.isTransitioning, x.allComplete,
       x.isWaitingSchedule, x.activeAlertColor, x.triggeredAlertIds, x.status,
       x.timeInSeconds, x.startTimeRef, x.pausedAtRef, x.totalPausedMsRef,
       x.initialTimeRef, x.intervalRef, x.liveIntervals >>

\* the screen as App.startEvent(e, 0) opens it at instant t for an event
\* without a scheduled start
directStart(e, t) ==
    Commit(e, Unmounted, InitialComp(e, 0, Null, t), TRUE, Null, t)

\* a step in which the schedule gate releases
GateReleases == Mounted /\ Mounted' /\ isWaitingSchedule /\ ~ isWaitingSchedule'

\* C27: when the schedule gate releases, the run is in the state a direct
\* start from segment 0 at that instant produces: segment 0 is running, with
\* the same displayed value, tracker, tick interval, fired alerts and colour.
C27_ReleaseIsStartFromZero ==
    [][GateReleases => RunState(Comp') = RunState(directStart(runningEventId, now))]_vars


\* how many of the three phase flags are set
PhaseFlags ==
    (IF isWaitingSchedule THEN 1 ELSE 0) + (IF isTransitioning THEN 1 ELSE 0)
        + (IF allComplete THEN 1 ELSE 0)

\* C28: the run is in exactly one phase at any time: at most one of
\* isWaitingSchedule, isTransitioning and allComplete is set, and the runner
\* is running or paused only when none of them is.
C28_OnePhase ==
    Mounted => /\ PhaseFlags <= 1
               /\ status \in {"running", "paused"} => PhaseFlags = 0


\* isFlashing is true as long as a flash sequence is in progress
C29_FlashingThroughout == flashChains # << >> => isFlashing

\* with no sequence in progress the flash is off
C29_OffAfterLast == flashChains = << >> => (~ isFlashing /\ flashColor = "")

\* the steps of a sequence: FLASH_STEPS steps FLASH_STEP_MS apart, colour on
\* at the even ones and off at the odd ones, then the end
C29_Steps ==
    [][\A i \in DOMAIN flashChains : FlashTimeout(i) =>
          /\ now = flashChains[i].dueAt
          /\ IF flashChains[i].count < FLASH_STEPS
             THEN /\ isFlashing'
                  /\ flashColor' = IF flashChains[i].count % 2 = 0
                                   THEN flashChains[i].color ELSE ""
                  /\ flashChains'[i].dueAt = flashChains[i].dueAt + FLASH_STEP_MS
             ELSE ~ isFlashing' /\ flashColor' = ""]_vars

\* C29: a flash runs FLASH_STEPS steps FLASH_STEP_MS apart alternating colour
\* on and off and ends with isFlashing false and flashColor empty; isFlashing
\* stays true for the whole of every sequence, also when another sequence is
\* triggered while one is in progress, and is false after the last one ended.
C29_FlashSequence ==
    /\ C29_Steps
    /\ [] C29_FlashingThroughout
    /\ [] C29_OffAfterLast

\* C30: while blacked out, a key press of any key (B included, in any timer
\* status) leaves isBlackout false; blackout is entered only while the timer is
\* running; and while blacked out the timer changes by its own ticks only,
\* its tick interval still live when it is running
C30_KeyRestores ==
    [][(\E key \in BlackoutKeys : KeyDownInBlackout(key)) => ~ isBlackout']_vars

C30_EnteredOnlyWhileRunning ==
    [][(~ isBlackout /\ isBlackout') => (status = "running" /\ UNCHANGED compVars)]_vars

C30_TimerKeepsRunning ==
    /\ [][isBlackout => (UNCHANGED compVars \/ Tick \/ TransitionTick)]_vars
    /\ [](isBlackout /\ status = "running" => liveIntervals = 1)

====
